---- MODULE Spec2Model ----
(***************************************************************************)
(* Model of the two market-data clients of the repository:                 *)
(*   src/utils/helpers.py   is_solana_address                              *)
(*   src/birdeye.py         BirdEyeClient                                  *)
(*   src/dexscreener.py     DexScreenerClient                              *)
(* The clients hold no mutable state, so the state of the model is the     *)
(* record of the last call: which operation ran, on which arguments, how   *)
(* many transport calls it issued, what the transport answered, whether    *)
(* the body of the answer was read, and how the call ended.                *)
(* Python strings are sequences of one-character strings; JSON objects are *)
(* functions whose DOMAIN is the set of keys present.                      *)
(***************************************************************************)
EXTENDS Integers, Sequences, FiniteSets, TLC

VARIABLES client, op, arg, target, calls, status, body, bodyRead, raised, returned, result

vars == <<client, op, arg, target, calls, status, body, bodyRead, raised, returned, result>>

(***************************************************************************)
(* Bounds of the model.                                                    *)
(***************************************************************************)
MaxOnes == 33          \* leading "1" characters of a candidate address
MaxPayload == 2        \* characters following the leading "1"s
MaxAddrs == 2          \* length of a token_addresses list
MaxBody == 2           \* entries of a bulk response body
MaxPairs == 2          \* length of a token_pairs list

(***************************************************************************)
(* base58.b58decode, as called at src/utils/helpers.py:13.                 *)
(***************************************************************************)
B58Alphabet ==
    << "1", "2", "3", "4", "5", "6", "7", "8", "9",
       "A", "B", "C", "D", "E", "F", "G", "H", "J", "K", "L", "M", "N",
       "P", "Q", "R", "S", "T", "U", "V", "W", "X", "Y", "Z",
       "a", "b", "c", "d", "e", "f", "g", "h", "i", "j", "k",
       "m", "n", "o", "p", "q", "r", "s", "t", "u", "v", "w", "x", "y", "z" >>

B58Base == Len(B58Alphabet)

ByteBase == 256

B58Chars == { B58Alphabet[i] : i \in 1..B58Base }

B58Value(c) == (CHOOSE i \in 1..B58Base : B58Alphabet[i] = c) - 1

Whitespace == { " " }

\* One character outside ASCII, written by its code point.
NonAscii == { "U+00E9" }

RECURSIVE rstrip(_)
rstrip(v) ==
    IF v # <<>> /\ v[Len(v)] \in Whitespace
    THEN rstrip(SubSeq(v, 1, Len(v) - 1))
    ELSE v

RECURSIVE lstrip(_, _)
lstrip(v, c) ==
    IF v # <<>> /\ v[1] = c THEN lstrip(Tail(v), c) ELSE v

\* str.encode('ascii'): UnicodeEncodeError on a non-ASCII character.
scrub_input(v) ==
    IF \E i \in 1..Len(v) : v[i] \in NonAscii
    THEN [exc |-> "UnicodeEncodeError", val |-> <<>>]
    ELSE [exc |-> "", val |-> v]

RECURSIVE b58decode_acc(_, _)
b58decode_acc(v, decimal) ==
    IF v = <<>> THEN [exc |-> "", val |-> decimal]
    ELSE IF v[1] \notin B58Chars THEN [exc |-> "ValueError", val |-> 0]
    ELSE b58decode_acc(Tail(v), decimal * B58Base + B58Value(v[1]))

b58decode_int(v) == b58decode_acc(rstrip(v), 0)

RECURSIVE BigEndian(_)
BigEndian(n) ==
    IF n = 0 THEN <<>> ELSE Append(BigEndian(n \div ByteBase), n % ByteBase)

ZeroBytes(n) == [i \in 1..n |-> 0]

b58decode(v) ==
    LET s == scrub_input(rstrip(v)) IN
    IF s.exc # "" THEN [exc |-> s.exc, val |-> <<>>]
    ELSE LET origlen == Len(s.val)
             w       == lstrip(s.val, B58Alphabet[1])
             newlen  == Len(w)
             acc     == b58decode_int(w)
         IN IF acc.exc # "" THEN [exc |-> acc.exc, val |-> <<>>]
            ELSE [exc |-> "",
                  val |-> ZeroBytes(origlen - newlen) \o BigEndian(acc.val)]

(***************************************************************************)
(* src/utils/helpers.py: is_solana_address.  try_is_solana_address is the  *)
(* whole try/except: exc is what escapes the function, val what it         *)
(* returns.                                                                *)
(***************************************************************************)
AddressBytes == 32

try_is_solana_address_AtLeast(address) ==
    LET decoded == b58decode(address) IN
    IF decoded.exc # "" THEN [exc |-> "", val |-> FALSE]
    ELSE [exc |-> "", val |-> Len(decoded.val) >= AddressBytes]

try_is_solana_address(address) ==
    LET decoded == b58decode(address) IN
    IF decoded.exc # "" THEN [exc |-> "", val |-> FALSE]
    ELSE [exc |-> "", val |-> Len(decoded.val) = AddressBytes]

is_solana_address(address) == try_is_solana_address(address).val

(***************************************************************************)
(* Candidate address strings.                                              *)
(***************************************************************************)
Ones(n) == [i \in 1..n |-> "1"]

PayloadChars == { "1", "2", "z", "0", " ", "U+00E9" }

RECURSIVE StringsUpTo(_, _)
StringsUpTo(S, n) ==
    IF n = 0 THEN { <<>> }
    ELSE LET shorter == StringsUpTo(S, n - 1)
         IN shorter \cup { Append(s, c) : s \in shorter, c \in S }

Candidates ==
    { Ones(k) \o p : k \in 0..MaxOnes, p \in StringsUpTo(PayloadChars, MaxPayload) }

\* The empty string, a valid address, one too short, one with a bad character.
Addresses == { <<>>, Append(Ones(AddressBytes - 1), "2"), <<"2">>, <<"0">> }

AddressLists == UNION { [1..n -> Addresses] : n \in 0..MaxAddrs }

(***************************************************************************)
(* JSON values.  An object is a function from the keys present to values;  *)
(* obj[k] raises KeyError when k is not in DOMAIN obj.                     *)
(***************************************************************************)
Objs(K, V) == UNION { [D -> V] : D \in SUBSET K }

EmptyDict == << >>

HasKey(obj, k) == k \in DOMAIN obj

RawVals == { <<"1", ".", "5">>, <<"x">> }

DecDigits == << "0", "1", "2", "3", "4", "5", "6", "7", "8", "9" >>

DecBase == Len(DecDigits)

IsDigit(c) == \E i \in 1..DecBase : DecDigits[i] = c

DigitValue(c) == (CHOOSE i \in 1..DecBase : DecDigits[i] = c) - 1

\* decimal.Decimal(str): the exact value coef * 10^exp, or InvalidOperation.
RECURSIVE DecimalScan(_, _, _, _, _)
DecimalScan(s, coef, exp, dot, digits) ==
    IF s = <<>>
    THEN IF digits = 0 THEN [exc |-> "InvalidOperation", val |-> <<>>]
         ELSE [exc |-> "", val |-> [coef |-> coef, exp |-> exp]]
    ELSE IF IsDigit(s[1])
         THEN DecimalScan(Tail(s), coef * DecBase + DigitValue(s[1]),
                          IF dot THEN exp - 1 ELSE exp, dot, digits + 1)
    ELSE IF s[1] = "." /\ ~dot
         THEN DecimalScan(Tail(s), coef, exp, TRUE, digits)
    ELSE [exc |-> "InvalidOperation", val |-> <<>>]

Decimal(s) == DecimalScan(s, 0, 0, FALSE, 0)

StatusCodes == { 200, 201, 500 }

HTTP_OK == 200

BulkEntries == Objs({"price", "liquidity"}, RawVals)

BulkBodies == UNION { [1..n -> BulkEntries] : n \in 0..MaxBody }

OverviewKeys == { "price", "symbol", "decimals", "lastTradeUnixTime", "liquidity", "supply" }

OverviewBodies == Objs(OverviewKeys, RawVals)

NoBody == << >>

NoResult == [type |-> "none", value |-> << >>]

(***************************************************************************)
(* How a call ends: the transport calls it issued, the response it got (if *)
(* any), whether it read the response body (resp.json()), the exception    *)
(* it raised ("" when it returned) and the value it returned.              *)
(***************************************************************************)
NoResp == [status |-> 0, body |-> NoBody]

Raise(exc, n, resp, read) ==
    [calls |-> n, status |-> resp.status, body |-> resp.body, bodyRead |-> read,
     exc |-> exc, result |-> NoResult]

Return(type, value, n, resp, read) ==
    [calls |-> n, status |-> resp.status, body |-> resp.body, bodyRead |-> read,
     exc |-> "", result |-> [type |-> type, value |-> value]]

(***************************************************************************)
(* src/birdeye.py: BirdEyeClient                                           *)
(***************************************************************************)
\* _make_api_call: the number of requests sent, or the ValueError raised.
make_api_call(method) ==
    IF method \in { "GET", "POST" } THEN [exc |-> "", sent |-> 1]
    ELSE [exc |-> "ValueError", sent |-> 0]

BirdEye_fetch_prices(token_addresses, resp) ==
    IF token_addresses = <<>> THEN Raise("NoPositionsError", 0, NoResp, FALSE)
    ELSE LET call == make_api_call("GET") IN
         IF call.exc # "" THEN Raise(call.exc, call.sent, NoResp, FALSE)
         ELSE IF resp.status # HTTP_OK
              THEN Raise("InvalidTokens", call.sent, resp, FALSE)
         ELSE Return("json", resp.body, call.sent, resp, TRUE)

BirdEye_fetch_token_overview(address, resp) ==
    IF ~is_solana_address(address)
    THEN Raise("InvalidSolanaAddress", 0, NoResp, FALSE)
    ELSE LET call == make_api_call("GET") IN
         IF call.exc # "" THEN Raise(call.exc, call.sent, NoResp, FALSE)
         ELSE IF resp.status # HTTP_OK
              THEN Raise("InvalidTokens", call.sent, resp, FALSE)
         ELSE Return("json", resp.body, call.sent, resp, TRUE)

(***************************************************************************)
(* src/dexscreener.py: DexScreenerClient.  The validators give the         *)
(* exception they raise, "" when they return.                              *)
(***************************************************************************)
validate_token_address(token_address) ==
    IF token_address = <<>> THEN "NoPositionsError"
    ELSE IF ~is_solana_address(token_address) THEN "InvalidSolanaAddress"
    ELSE ""

RECURSIVE validate_each(_)
validate_each(token_addresses) ==
    IF token_addresses = <<>> THEN ""
    ELSE LET exc == validate_token_address(Head(token_addresses)) IN
         IF exc # "" THEN exc ELSE validate_each(Tail(token_addresses))

validate_token_addresses_NoEmptyCheck(token_addresses) ==
    validate_each(token_addresses)

validate_token_addresses(token_addresses) ==
    IF token_addresses = <<>> THEN "NoPositionsError"
    ELSE validate_each(token_addresses)

validate_response_ErrorsOnly(resp) ==
    IF resp.status >= 400 THEN "InvalidTokens" ELSE ""

validate_response(resp) ==
    IF resp.status # HTTP_OK THEN "InvalidTokens" ELSE ""

\* _call_api and _call_api_bulk: validate, requests.get, _validate_response,
\* res.json().
call_api(token_address, resp) ==
    LET invalid == validate_token_address(token_address) IN
    IF invalid # "" THEN Raise(invalid, 0, NoResp, FALSE)
    ELSE LET bad == validate_response(resp) IN
         IF bad # "" THEN Raise(bad, 1, resp, FALSE)
         ELSE Return("json", resp.body, 1, resp, TRUE)

call_api_bulk(token_addresses, resp) ==
    LET invalid == validate_token_addresses(token_addresses) IN
    IF invalid # "" THEN Raise(invalid, 0, NoResp, FALSE)
    ELSE LET bad == validate_response(resp) IN
         IF bad # "" THEN Raise(bad, 1, resp, FALSE)
         ELSE Return("json", resp.body, 1, resp, TRUE)

DecimalField_Default(data, k) ==
    IF ~HasKey(data, k) THEN [exc |-> "", val |-> [coef |-> 0, exp |-> 0]]
    ELSE Decimal(data[k])

\* Decimal(data[k]): KeyError when k is absent, else the conversion.
DecimalField(data, k) ==
    IF ~HasKey(data, k) THEN [exc |-> "KeyError", val |-> <<>>]
    ELSE Decimal(data[k])

\* The loop of fetch_prices_dex over res.items(), in the order of the body;
\* the key of an entry is its position in the body.
RECURSIVE price_items(_, _, _)
price_items(res, i, prices) ==
    IF i > Len(res) THEN [exc |-> "", val |-> prices]
    ELSE LET price == DecimalField(res[i], "price") IN
         IF price.exc # "" THEN [exc |-> price.exc, val |-> <<>>]
         ELSE LET liquidity == DecimalField(res[i], "liquidity") IN
              IF liquidity.exc # "" THEN [exc |-> liquidity.exc, val |-> <<>>]
              ELSE price_items(res, i + 1,
                       Append(prices, [price |-> price.val,
                                       liquidity |-> liquidity.val]))

Dex_fetch_prices_dex(token_addresses, resp) ==
    LET res == call_api_bulk(token_addresses, resp) IN
    IF res.exc # "" THEN res
    ELSE LET prices == price_items(res.result.value, 1, <<>>) IN
         IF prices.exc # "" THEN Raise(prices.exc, res.calls, resp, TRUE)
         ELSE Return("dict[str, PriceInfo]", prices.val, res.calls, resp, TRUE)

\* The keyword arguments of TokenOverview(...), in evaluation order.
OverviewFields ==
    << "price", "symbol", "decimals", "lastTradeUnixTime", "liquidity", "supply" >>

DecimalFields == { "price", "liquidity", "supply" }

OverviewField(res, k) ==
    IF ~HasKey(res, k) THEN [exc |-> "KeyError", val |-> <<>>]
    ELSE IF k \in DecimalFields THEN Decimal(res[k])
    ELSE [exc |-> "", val |-> res[k]]

RECURSIVE overview_exc(_, _)
overview_exc(res, i) ==
    IF i > Len(OverviewFields) THEN ""
    ELSE LET f == OverviewField(res, OverviewFields[i]) IN
         IF f.exc # "" THEN f.exc ELSE overview_exc(res, i + 1)

Dex_fetch_token_overview(address, resp) ==
    LET res == call_api(address, resp) IN
    IF res.exc # "" THEN res
    ELSE LET exc == overview_exc(res.result.value, 1) IN
         IF exc # "" THEN Raise(exc, res.calls, resp, TRUE)
         ELSE Return("TokenOverview",
                     [k \in OverviewKeys |-> OverviewField(res.result.value, k).val],
                     res.calls, resp, TRUE)

(***************************************************************************)
(* src/dexscreener.py: find_largest_pool_with_sol                          *)
(***************************************************************************)
SOL_MINT == "So11111111111111111111111111111111111111112"

PairAddresses == { "A", "B" }

Targets == { "A" }

QuoteAddresses == { SOL_MINT, "USDC" }

UsdVals == { <<"0">>, <<"5">>, <<"5", ".", "0">>, <<"x">> }

TokenObjs(addresses) == Objs({"address"}, addresses)

LiquidityObjs == Objs({"usd"}, UsdVals)

Pairs ==
    UNION { { [k \in D |-> CASE k = "baseToken" -> b
                             [] k = "quoteToken" -> q
                             [] k = "liquidity" -> l]
              : b \in TokenObjs(PairAddresses),
                q \in TokenObjs(QuoteAddresses),
                l \in LiquidityObjs }
            : D \in SUBSET { "baseToken", "quoteToken", "liquidity" } }

PairLists == UNION { [1..n -> Pairs] : n \in 0..MaxPairs }

RECURSIVE Pow10(_)
Pow10(n) == IF n = 0 THEN 1 ELSE DecBase * Pow10(n - 1)

GreaterOrEqual(a, b) ==
    LET m == IF a.exp < b.exp THEN a.exp ELSE b.exp
    IN a.coef * Pow10(a.exp - m) >= b.coef * Pow10(b.exp - m)

\* a > b for two numbers coef * 10^exp.
Greater(a, b) ==
    LET m == IF a.exp < b.exp THEN a.exp ELSE b.exp
    IN a.coef * Pow10(a.exp - m) > b.coef * Pow10(b.exp - m)

\* float(str): the number read, or ValueError.
float(x) ==
    LET d == Decimal(x) IN
    IF d.exc # "" THEN [exc |-> "ValueError", val |-> <<>>] ELSE d

\* entry.get("baseToken", {}).get("address") == address
base_matches(entry, address) ==
    /\ HasKey(entry, "baseToken")
    /\ HasKey(entry["baseToken"], "address")
    /\ entry["baseToken"]["address"] = address

\* entry["quoteToken"]["address"] raises KeyError on either missing key.
quote_address(entry) ==
    IF HasKey(entry, "quoteToken") /\ HasKey(entry["quoteToken"], "address")
    THEN [exc |-> "", val |-> entry["quoteToken"]["address"]]
    ELSE [exc |-> "KeyError", val |-> ""]

\* float(entry.get("liquidity", {}).get("usd", 0))
liquidity_usd(entry) ==
    IF HasKey(entry, "liquidity") /\ HasKey(entry["liquidity"], "usd")
    THEN float(entry["liquidity"]["usd"])
    ELSE [exc |-> "", val |-> [coef |-> 0, exp |-> 0]]

InitialMax == [coef |-> -1, exp |-> 0]

RECURSIVE scan_pairs(_, _, _, _, _)
scan_pairs(token_pairs, address, i, max_entry, max_liquidity_usd) ==
    IF i > Len(token_pairs) THEN [exc |-> "", val |-> max_entry]
    ELSE LET entry == token_pairs[i] IN
         IF ~base_matches(entry, address)
         THEN scan_pairs(token_pairs, address, i + 1, max_entry, max_liquidity_usd)
         ELSE LET quote == quote_address(entry) IN
              IF quote.exc # "" THEN [exc |-> quote.exc, val |-> EmptyDict]
              ELSE IF quote.val # SOL_MINT
              THEN scan_pairs(token_pairs, address, i + 1, max_entry, max_liquidity_usd)
              ELSE LET usd == liquidity_usd(entry) IN
                   IF usd.exc # "" THEN [exc |-> usd.exc, val |-> EmptyDict]
                   ELSE IF Greater(usd.val, max_liquidity_usd)
                   THEN scan_pairs(token_pairs, address, i + 1, entry, usd.val)
                   ELSE scan_pairs(token_pairs, address, i + 1, max_entry,
                                   max_liquidity_usd)

find_largest_pool_with_sol(token_pairs, address) ==
    LET r == scan_pairs(token_pairs, address, 1, EmptyDict, InitialMax) IN
    IF r.exc # "" THEN Raise(r.exc, 0, NoResp, FALSE)
    ELSE Return("entry", r.val, 0, NoResp, FALSE)

(***************************************************************************)
(* The state machine: one action per public operation.  Each action is a   *)
(* whole call; the transport's answer is an input of the action.  Calls    *)
(* share no state, so a behaviour is one call made on a fresh client.      *)
(***************************************************************************)
Init ==
    /\ client = "none"
    /\ op = "none"
    /\ arg = << >>
    /\ target = ""
    /\ calls = 0
    /\ status = 0
    /\ body = NoBody
    /\ bodyRead = FALSE
    /\ raised = ""
    /\ returned = FALSE
    /\ result = NoResult

Record(c, o, a, t, out) ==
    /\ client' = c
    /\ op' = o
    /\ arg' = a
    /\ target' = t
    /\ calls' = out.calls
    /\ status' = out.status
    /\ body' = out.body
    /\ bodyRead' = out.bodyRead
    /\ raised' = out.exc
    /\ returned' = (out.exc = "")
    /\ result' = out.result

Idle == op = "none"

Responses(bodies) == { [status |-> s, body |-> b] : s \in StatusCodes, b \in bodies }

IsSolanaAddress ==
    /\ Idle
    /\ \E address \in Candidates :
           LET r == try_is_solana_address(address) IN
           Record("helpers", "is_solana_address", address, "",
                  IF r.exc # "" THEN Raise(r.exc, 0, NoResp, FALSE)
                  ELSE Return("bool", r.val, 0, NoResp, FALSE))

BirdEyeFetchPrices ==
    /\ Idle
    /\ \E token_addresses \in AddressLists, resp \in Responses(BulkBodies) :
           Record("BirdEye", "fetch_prices", token_addresses, "",
                  BirdEye_fetch_prices(token_addresses, resp))

BirdEyeFetchTokenOverview ==
    /\ Idle
    /\ \E address \in Addresses, resp \in Responses(OverviewBodies) :
           Record("BirdEye", "fetch_token_overview", address, "",
                  BirdEye_fetch_token_overview(address, resp))

DexFetchPrices ==
    /\ Idle
    /\ \E token_addresses \in AddressLists, resp \in Responses(BulkBodies) :
           Record("DexScreener", "fetch_prices", token_addresses, "",
                  Dex_fetch_prices_dex(token_addresses, resp))

DexFetchTokenOverview ==
    /\ Idle
    /\ \E address \in Addresses, resp \in Responses(OverviewBodies) :
           Record("DexScreener", "fetch_token_overview", address, "",
                  Dex_fetch_token_overview(address, resp))

FindLargestPool ==
    /\ Idle
    /\ \E token_pairs \in PairLists, address \in Targets :
           Record("DexScreener", "find_largest_pool_with_sol", token_pairs, address,
                  find_largest_pool_with_sol(token_pairs, address))

NextValidator == IsSolanaAddress

NextClients ==
    \/ BirdEyeFetchPrices
    \/ BirdEyeFetchTokenOverview
    \/ DexFetchPrices
    \/ DexFetchTokenOverview

NextPools == FindLargestPool

Next == NextValidator \/ NextClients \/ NextPools

Spec == Init /\ [][Next]_vars

SpecValidator == Init /\ [][NextValidator]_vars

SpecClients == Init /\ [][NextClients]_vars

SpecPools == Init /\ [][NextPools]_vars

(***************************************************************************)
(* Properties.                                                             *)
(***************************************************************************)
IsBulk == op = "fetch_prices"

IsOverview == op = "fetch_token_overview"

IsPool == op = "find_largest_pool_with_sol"

\* C1: the bulk price fetch of either client, called with an empty address
\* list, raises NoPositionsError and has issued no transport call.
C1_EmptyListNoPositions ==
    (IsBulk /\ arg = <<>>) => (raised = "NoPositionsError" /\ calls = 0 /\ ~returned)

C1_Witness ==
    /\ IsBulk /\ arg = <<>> /\ client = "DexScreener"
    /\ raised = "NoPositionsError" /\ calls = 0

\* C2 (as claimed): a non-empty address list with an element that fails
\* is_solana_address makes the bulk price fetch of either client raise
\* InvalidSolanaAddress without a transport call, and the transport is
\* reached only when every address is valid.
C2_InvalidAddressRejected ==
    IsBulk =>
        /\ (arg # <<>> /\ \E i \in 1..Len(arg) : ~is_solana_address(arg[i]))
               => (raised = "InvalidSolanaAddress" /\ calls = 0)
        /\ calls > 0 => \A i \in 1..Len(arg) : is_solana_address(arg[i])

\* C3: once the transport has answered with a status other than 200, both
\* fetch operations of both clients raise InvalidTokens, whatever the body,
\* and the body has not been read.
C3_Non200IsInvalidTokens ==
    ((IsBulk \/ IsOverview) /\ calls > 0 /\ status # HTTP_OK)
        => (raised = "InvalidTokens" /\ ~bodyRead /\ ~returned)

C3_Witness ==
    /\ IsOverview /\ client = "BirdEye" /\ calls = 1 /\ status = 201
    /\ DOMAIN body = OverviewKeys
    /\ raised = "InvalidTokens"

EntryIncomplete(data) == ~HasKey(data, "price") \/ ~HasKey(data, "liquidity")

\* C4 (as claimed): a 200 bulk response with an entry lacking price or
\* liquidity makes the whole bulk price fetch raise InvalidTokens.
C4_IncompleteEntryIsInvalidTokens ==
    (IsBulk /\ calls > 0 /\ status = HTTP_OK
        /\ \E i \in 1..Len(body) : EntryIncomplete(body[i]))
        => raised = "InvalidTokens"

\* C5 (as claimed): fetch_token_overview of either client, called with an
\* empty address, raises NoPositionsError without a transport call.
C5_EmptyAddressNoPositions ==
    (IsOverview /\ arg = <<>>) => (raised = "NoPositionsError" /\ calls = 0)

\* C6 (as claimed): what a fetch of either client returns is a normalized
\* record (a map of PriceInfo, a TokenOverview), never the raw body.
C6_ReturnsNormalizedRecord ==
    /\ (IsBulk /\ returned) => result.type = "dict[str, PriceInfo]"
    /\ (IsOverview /\ returned) => result.type = "TokenOverview"

\* Trading pairs of the shape of the data model: all three fields present,
\* liquidity.usd a number (UsdVals holds no negative one).
WellFormed(entry) ==
    /\ HasKey(entry, "baseToken") /\ HasKey(entry["baseToken"], "address")
    /\ HasKey(entry, "quoteToken") /\ HasKey(entry["quoteToken"], "address")
    /\ HasKey(entry, "liquidity") /\ HasKey(entry["liquidity"], "usd")
    /\ Decimal(entry["liquidity"]["usd"]).exc = ""

MatchesBoth(entry, address) ==
    /\ HasKey(entry, "baseToken") /\ HasKey(entry["baseToken"], "address")
    /\ entry["baseToken"]["address"] = address
    /\ HasKey(entry, "quoteToken") /\ HasKey(entry["quoteToken"], "address")
    /\ entry["quoteToken"]["address"] = SOL_MINT

HasUsd(entry) == HasKey(entry, "liquidity") /\ HasKey(entry["liquidity"], "usd")

NumLeq(a, b) ==
    LET m == IF a.exp < b.exp THEN a.exp ELSE b.exp
    IN a.coef * Pow10(a.exp - m) <= b.coef * Pow10(b.exp - m)

\* The first pair, in scan order, of greatest rank among those matching both
\* addresses; the empty dict when none matches.
FirstLargest(pairs, address, rank) ==
    LET Q == { i \in 1..Len(pairs) : MatchesBoth(pairs[i], address) }
        M == { i \in Q : \A j \in Q : NumLeq(rank[j], rank[i]) }
    IN IF Q = {} THEN EmptyDict
       ELSE pairs[CHOOSE i \in M : \A j \in M : i <= j]

UsdOf(entry) == Decimal(entry["liquidity"]["usd"]).val

\* C7: on a list of well-formed trading pairs (liquidity never negative),
\* find_largest_pool_with_sol
\* returns the first pair of greatest liquidity.usd among those whose base
\* is the target and whose quote is SOL: non-empty when one exists (also at
\* zero liquidity), and a later pair of equal liquidity does not replace an
\* earlier one.
C7_FirstLargestPool ==
    (IsPool /\ \A i \in 1..Len(arg) : WellFormed(arg[i]))
        => /\ returned
           /\ result.value = FirstLargest(arg, target, [i \in 1..Len(arg) |-> UsdOf(arg[i])])
           /\ (\E i \in 1..Len(arg) : MatchesBoth(arg[i], target))
                  => result.value # EmptyDict

C7_Witness ==
    /\ IsPool /\ Len(arg) = 2
    /\ WellFormed(arg[1]) /\ WellFormed(arg[2])
    /\ MatchesBoth(arg[1], target) /\ MatchesBoth(arg[2], target)
    /\ arg[1] # arg[2]
    /\ arg[1]["liquidity"]["usd"] = <<"5", ".", "0">>
    /\ arg[2]["liquidity"]["usd"] = <<"5">>
    /\ returned /\ result.value = arg[1]

\* C8 (as claimed): on a list in which no pair matches both the target and
\* SOL, find_largest_pool_with_sol returns the empty dict and does not raise.
C8_NoMatchReturnsEmpty ==
    (IsPool /\ \A i \in 1..Len(arg) : ~MatchesBoth(arg[i], target))
        => (returned /\ result.value = EmptyDict)

RECURSIVE LeadingOnes(_)
LeadingOnes(s) ==
    IF s # <<>> /\ s[1] = "1" THEN 1 + LeadingOnes(Tail(s)) ELSE 0

RECURSIVE B58Number(_)
B58Number(s) ==
    IF s = <<>> THEN 0
    ELSE B58Number(SubSeq(s, 1, Len(s) - 1)) * B58Base + B58Value(s[Len(s)])

RECURSIVE BytesNeeded(_)
BytesNeeded(n) == IF n = 0 THEN 0 ELSE 1 + BytesNeeded(n \div ByteBase)

\* The strings that are the base-58 text of a 32-byte value: only characters
\* of the alphabet (trailing blanks aside), each leading "1" standing for a
\* zero byte, the rest for the bytes of the number it spells.
Decodes32(s) ==
    LET t == rstrip(s) IN
    /\ \A i \in 1..Len(t) : t[i] \in B58Chars
    /\ LET k == LeadingOnes(t)
       IN k + BytesNeeded(B58Number(SubSeq(t, k + 1, Len(t)))) = AddressBytes

\* C9: is_solana_address never raises, and returns true exactly when base-58
\* decoding of its input succeeds and gives 32 bytes.
C9_ValidIffDecodes32 ==
    op = "is_solana_address" =>
        /\ raised = "" /\ returned
        /\ result.value = (b58decode(arg).exc = "" /\ Len(b58decode(arg).val) = AddressBytes)
        /\ result.value = Decodes32(arg)

C9_Witness ==
    /\ op = "is_solana_address" /\ returned /\ result.value = TRUE
    /\ arg[Len(arg)] = "z" /\ arg[Len(arg) - 1] = "z"

\* C10 (as claimed): find_largest_pool_with_sol never selects a matching
\* pair that has no liquidity.usd (which it could only rank by a value put
\* in its place).
C10_NoSubstitutedLiquidity ==
    (IsPool /\ returned /\ result.value # EmptyDict) => HasUsd(result.value)

RankOrZero(entry) ==
    IF HasUsd(entry) THEN UsdOf(entry) ELSE [coef |-> 0, exp |-> 0]

\* C10 (amended): no fetch operation puts a value in the place of a missing
\* field: a DexScreener fetch that returns found every field it converts in
\* the body, and a BirdEye fetch returns the body as received.  But
\* find_largest_pool_with_sol ranks a matching pair without liquidity.usd
\* as having liquidity 0: when it returns, it returns the first pair of
\* greatest rank, which can be such a pair.
C10_OnlyPoolRankDefaults ==
    /\ (IsBulk /\ returned /\ client = "DexScreener") =>
           /\ Len(result.value) = Len(body)
           /\ \A i \in 1..Len(body) :
                  /\ ~EntryIncomplete(body[i])
                  /\ result.value[i].price = Decimal(body[i]["price"]).val
                  /\ result.value[i].liquidity = Decimal(body[i]["liquidity"]).val
    /\ (IsOverview /\ returned /\ client = "DexScreener") =>
           /\ DOMAIN body = OverviewKeys
           /\ \A k \in DecimalFields : result.value[k] = Decimal(body[k]).val
    /\ ((IsBulk \/ IsOverview) /\ returned /\ client = "BirdEye") =>
           result.value = body
    /\ (IsPool /\ returned) => result.value =
           FirstLargest(arg, target, [i \in 1..Len(arg) |-> RankOrZero(arg[i])])

C10_Witness ==
    /\ IsPool /\ returned /\ Len(arg) = 2
    /\ MatchesBoth(arg[1], target) /\ ~HasUsd(arg[1])
    /\ MatchesBoth(arg[2], target) /\ HasUsd(arg[2])
    /\ arg[2]["liquidity"]["usd"] = <<"0">>
    /\ result.value = arg[1]

====
